---- MODULE Spec2Model ----
(***************************************************************************)
(* Model of the llamacontroller control plane.                             *)
(*                                                                         *)
(* ModelLifecycleManager (core/lifecycle.py) holds one current_model, one  *)
(* load_time and one LlamaCppAdapter.  Its coroutines run on one asyncio   *)
(* event loop: a coroutine runs without interruption between two awaits    *)
(* that really suspend (the health probe and the sleeps), and a blocking   *)
(* adapter call (start_server, stop_server) holds the loop.                *)
(*                                                                         *)
(* core/adapter.py is not part of the available sources; the adapter is    *)
(* modelled from the ProcessAdapter contract and the ProcessStatus state   *)
(* machine of the specification.                                           *)
(***************************************************************************)
EXTENDS Integers, FiniteSets, Sequences, TLC

\* ------------------------------------------------------------------ bounds
MaxSpawns == 2

\* --------------------------------------------------------------- constants
Callers == {"c1", "c2"}
Models == {"m1", "m2"}
UnknownModel == "nomodel"
ModelIds == Models \cup {UnknownModel}
NoModel == "none"
NoTime == -1
NoPid == 0
Pids == 1..MaxSpawns
\* gpu_id of a request: "GPU ID (0, 1, or 'both')"
GpuIds == {0, 1}
NoGpu == -1

\* ProcessStatus enumeration
STOPPED == "stopped"
STARTING == "starting"
RUNNING == "running"
STOPPING == "stopping"
CRASHED == "crashed"
ERROR == "error"
ProcessStatus == {STOPPED, STARTING, RUNNING, STOPPING, CRASHED, ERROR}

NoStatus == "nostatus"

VARIABLES
    current_model,      \* ModelLifecycleManager.current_model (a model id or NoModel)
    load_time,          \* ModelLifecycleManager.load_time
    adapter_process,    \* the adapter's subprocess handle: a pid or NoPid
    adapter_status,     \* the adapter's ProcessStatus
    os_alive,           \* pids of the live processes the controller spawned
    os_ready,           \* live processes whose health endpoint answers
    next_pid,           \* the pid the next spawn gets
    clock,              \* datetime.now(), as a logical clock
    processes,          \* ProcessRegistry.processes: key -> entry
    gpu_model_mapping,  \* GpuDetector._gpu_model_mapping: key -> model name
    pc,                 \* per caller: where its coroutine stands
    op,                 \* per caller: the operation it called
    req_model,          \* per caller: the model id of its request
    req_gpu,            \* per caller: the gpu_id its request names
    cont,               \* per caller: why it called stop_server
    spawned,            \* per caller: the pid its load spawned
    old_pid,            \* per caller: the subprocess of the backend its switch replaces
    response,           \* what the step just taken returned to its caller, if anything
    bound_gpu,          \* the gpu_id named by the request that bound current_model
    registry_file,      \* content of the file at ProcessRegistry.registry_file
    temp_file,          \* content of the file at registry_file.with_suffix('.tmp')
    os_procs,           \* the OS process table psutil reads: pid -> process name
    reg_pc,             \* where the registry method being executed stands
    reg_result,         \* the registry method called last and what it returns
    smi,                \* what running nvidia-smi gives at this moment
    gpu_status,         \* what detect_gpus returned, if the step just taken called it
    api_result,         \* what the request handled last was and how it was answered
    gpu_instances       \* the manager's backends by resource key: key -> model id

mgr_vars == <<current_model, load_time, bound_gpu>>
adapter_vars == <<adapter_process, adapter_status>>
os_vars == <<os_alive, os_ready, next_pid>>
detector_vars == <<smi, gpu_status>>
api_vars == <<api_result, gpu_instances>>
reg_vars == <<processes, gpu_model_mapping, registry_file, temp_file, os_procs, reg_pc,
              reg_result, detector_vars, api_vars>>
frame_vars == <<pc, op, req_model, req_gpu, cont, spawned, old_pid>>
vars == <<current_model, load_time, adapter_process, adapter_status, os_alive,
          os_ready, next_pid, clock, processes, gpu_model_mapping, pc, op,
          req_model, req_gpu, cont, spawned, old_pid, response, bound_gpu,
          registry_file, temp_file, os_procs, reg_pc, reg_result, smi, gpu_status,
          api_result, gpu_instances>>

\* ----------------------------------------------------------------- results
OK == "ok"
NOT_FOUND == "Model not found"
ALREADY_LOADED == "already loaded"
START_FAILED == "Failed to start server"
NOT_READY == "Server failed to become ready within timeout"
UNLOAD_FAILED == "Failed to unload model"
CANCELLED == "cancelled"
HTTP_500 == "http 500"
HEALTHY == "healthy"
UNHEALTHY == "unhealthy"

\* HealthCheckResponse.uptime_seconds: None, or the adapter's figure
NoUptime == "no uptime"
UPTIME == "seconds since the start"

NoResponse == [caller |-> "nobody", op |-> "none", result |-> "noresult",
               status |-> NoStatus, stop |-> "none", model |-> NoModel, gpu |-> NoGpu,
               pid |-> NoPid, old |-> NoPid, probed |-> FALSE, uptime |-> NoUptime]

\* pc values
IDLE == "idle"
IN_START == "in start_server"
WAIT_READY == "in _wait_for_ready"
IN_STOP == "in stop_server"
SETTLE == "in sleep(1)"

\* -------------------------------------------------- registry: data and files
\* gpu_id strings that key the registry
RegKeys == {"0", "1"}
\* pids of the processes the registry operations are tried on
RegPids == {1, 2}
\* the service ports and the models recorded in entries
Ports == {8080, 8081}
RegModels == {"m1", "m2"}
\* the backends whose launch is registered: the pid the launch got, the model
\* it serves, its port and the command line it was started with
Launches ==
    {[pid |-> 1, model_id |-> "m1", port |-> 8080,
      command_line |-> <<"llama-server", "-m", "m1.gguf">>],
     [pid |-> 2, model_id |-> "m2", port |-> 8081,
      command_line |-> <<"llama-server", "-m", "m2.gguf">>]}

\* names in the OS process table; NoProc: no process has the pid
NoProc == "no such process"
LLAMA_SERVER == "llama-server"
PYTHON == "python3"
ProcNames == {LLAMA_SERVER, PYTHON}
\* a process of another program whose name holds the word 'server', and a
\* process whose name the OS does not let the controller read
HTTP_SERVER == "http-server"
UNREADABLE == "name not readable"
AllProcNames == ProcNames \cup {HTTP_SERVER, UNREADABLE}

\* ProcessRegistryEntry.status values the registry writes
REG_RUNNING == "running"
REG_STOPPED == "stopped"
REG_UNKNOWN == "unknown"

EmptyMap == <<>>

\* what a path of the file system holds: nothing, a complete JSON document,
\* the beginning of one (a write that did not finish), or bytes that are not JSON
AbsentFile == [kind |-> "absent", doc |-> EmptyMap]
PartialFile == [kind |-> "partial", doc |-> EmptyMap]
GarbageFile == [kind |-> "garbage", doc |-> EmptyMap]
DocFile(d) == [kind |-> "doc", doc |-> d]

\* reg_pc values
REG_IDLE == "idle"
SAVE_WRITE == "save: writing the temp file"
SAVE_RENAME == "save: temp file written"
CLEANUP == "cleanup_orphaned_processes: in the loop"

Constructed == [op |-> "construct", ret |-> "none"]

\* ------------------------------------------------------ GPU detector: data
\* GpuDetector.__init__(memory_threshold_mb=30)
memory_threshold_mb == 30
\* indexes of the GPUs nvidia-smi lists, and the index of the CPU entry
DeviceIndexes == {0, 1}
CPU_INDEX == -1
\* MiB a GPU reports as used: none, the threshold, just above it, nearly all
MemoryUsed == {0, memory_threshold_mb, memory_threshold_mb + 1, 24560}
MemoryTotals == {24576}

\* GpuState
GpuState_IDLE == "idle"
GpuState_MODEL_LOADED == "model_loaded"
GpuState_OCCUPIED_BY_OTHERS == "occupied_by_others"

\* keys of _gpu_model_mapping (Dict[Union[int, str], str]): an int names one
\* GPU, a str is the comma-joined list of the GPUs it names; the int 0 and
\* the str "0" are different keys of a dict
IntKey(i) == [type |-> "int", devices |-> <<i>>]
StrKey(ds) == [type |-> "str", devices |-> ds]
GpuKeys == {IntKey(0), IntKey(1), StrKey(<<0>>), StrKey(<<0, 1>>)}
ModelNames == {"Model One", "Model Two"}
NoName == "None"
OCCUPIED_NAME == "Occupied by someone else"

GpuInfo(i, used, total) == [index |-> i, memory_used |-> used, memory_total |-> total]

\* the GPU table of an nvidia-smi output: no GPU, GPU 0, or GPUs 0 and 1
GpuTables ==
    {<<>>}
    \cup {<<GpuInfo(0, u, t)>> : u \in MemoryUsed, t \in MemoryTotals}
    \cup {<<GpuInfo(0, u, t), GpuInfo(1, v, t)>> :
             u \in MemoryUsed, v \in MemoryUsed, t \in MemoryTotals}

\* what running nvidia-smi can give: no such program, no answer within 10 s,
\* a non-zero exit status, another OS error, or an output whose GPU table
\* names the driver model (TCC, WDDM) or, where there is none, shows the
\* persistence mode in that column
SmiFailures == {"missing", "timeout", "nonzero", "oserror"}
DriverColumns == {"WDDM", "Off"}
SmiStates ==
    {[kind |-> f, column |-> "none", gpus |-> <<>>] : f \in SmiFailures}
    \cup {[kind |-> "output", column |-> c, gpus |-> g] :
             c \in DriverColumns, g \in GpuTables}

\* a method of the detector that returns nothing
Did(method) == [op |-> method, raised |-> FALSE, statuses |-> <<>>]
NoDetection == Did("none")

\* ------------------------------------------------------------- API answers
\* HTTP status codes the handlers answer with or pass through
HTTP_200_OK == 200
HTTP_201_CREATED == 201
HTTP_400_BAD_REQUEST == 400
HTTP_404_NOT_FOUND == 404
HTTP_500_INTERNAL_SERVER_ERROR == 500
HTTP_503_SERVICE_UNAVAILABLE == 503
\* no HTTP answer came: httpx raised ConnectError
REFUSED == -1
NoCode == 0

\* no path parameter
NoPath == [type |-> "none", devices |-> <<>>]

NoApiResult == [endpoint |-> "none", code |-> NoCode, detail |-> "none", body |-> "none",
                sent |-> FALSE, forwarded |-> {}, options |-> {}, stream |-> "none",
                answer |-> NoCode, path |-> NoPath, entry |-> NoModel]

\* The event loop is held by a caller that is inside a blocking adapter call.
LoopFree(c) == \A d \in Callers \ {c} : pc[d] \notin {IN_START, IN_STOP}

Init ==
    /\ current_model = NoModel
    /\ load_time = NoTime
    /\ adapter_process = NoPid
    /\ adapter_status = STOPPED
    /\ os_alive = {}
    /\ os_ready = {}
    /\ next_pid = 1
    /\ clock = 0
    /\ processes = <<>>
    /\ gpu_model_mapping = <<>>
    /\ pc = [c \in Callers |-> IDLE]
    /\ op = [c \in Callers |-> "none"]
    /\ req_model = [c \in Callers |-> NoModel]
    /\ req_gpu = [c \in Callers |-> NoGpu]
    /\ cont = [c \in Callers |-> "none"]
    /\ spawned = [c \in Callers |-> NoPid]
    /\ old_pid = [c \in Callers |-> NoPid]
    /\ response = NoResponse
    /\ bound_gpu = NoGpu
    /\ registry_file = AbsentFile
    /\ temp_file = AbsentFile
    /\ os_procs = [p \in RegPids |-> NoProc]
    /\ reg_pc = REG_IDLE
    /\ reg_result = Constructed
    /\ smi = [kind |-> "missing", column |-> "none", gpus |-> <<>>]
    /\ gpu_status = NoDetection
    /\ api_result = NoApiResult
    /\ gpu_instances = <<>>

\* ------------------------------------------------- adapter (ProcessAdapter)
\* The subprocess handle reports the process alive.
adapter_is_running(p, alive) == p # NoPid /\ p \in alive

\* is_healthy(): the probe of the health endpoint; any failure is FALSE.
adapter_is_healthy(p, alive, ready) == p # NoPid /\ p \in alive /\ p \in ready

\* starting --ready--> running: the health endpoint has answered.
adapter_status_after_probe(st, healthy) ==
    IF healthy /\ st = STARTING THEN RUNNING ELSE st

\* get_status(): an unexpected exit is detected lazily, when status is asked.
adapter_get_status(st, p, alive) ==
    IF st \in {STARTING, RUNNING} /\ p # NoPid /\ p \notin alive THEN CRASHED ELSE st

\* get_pid(): absent when not running.
adapter_get_pid(p, alive) == IF adapter_is_running(p, alive) THEN p ELSE NoPid

\* start_server refuses to own a second subprocess (AdapterError).
adapter_start_refused(p, alive) == adapter_is_running(p, alive)

\* what stop_server can do to the subprocess, and so what it returns
adapter_stop_outcomes(p, alive) ==
    IF p = NoPid THEN {"nothing"}
    ELSE IF p \notin alive THEN {"exited"}
    ELSE {"graceful", "forced", "failed"}

\* stop_server returns whether the process ended up stopped
adapter_stop_returns(o) == o # "failed"

\* get_uptime_seconds(): absent when no subprocess was started
adapter_get_uptime_seconds(p) == IF p = NoPid THEN NoUptime ELSE UPTIME

\* ------------------------------------------------------ lifecycle manager
\* (faulty variant: every id is taken as catalogued)
InCatalog_Any(m) == TRUE

\* config_manager.models.get_model(model_id) is not None
InCatalog(m) == m \in Models

\* (faulty variant: the check is missing)
AlreadyLoaded_Never(cm) == FALSE

\* load_model: "Check if a model is already loaded"
AlreadyLoaded(cm) == cm # NoModel

\* (faulty variant: the status is derived from the binding, not from the adapter)
StatusSnapshot_FromBinding(cm, st, p, alive) == IF cm # NoModel THEN RUNNING ELSE STOPPED

\* get_status: the status field of the ModelStatus snapshot
StatusSnapshot(cm, st, p, alive) == adapter_get_status(st, p, alive)

\* (faulty variant: the return value of stop_server is ignored)
StopFailed_Ignored(success) == FALSE

\* unload_model: "if not success: raise LifecycleError"
StopFailed(success) == ~success

\* (faulty variant: a failed load leaves the requested model bound)
BindingAfterFailedLoad_Kept(cm, m) == m

\* load_model raises before "Update state": current_model is as it was
BindingAfterFailedLoad(cm, m) == cm

\* (faulty variant: the comparison is missing)
SameModel_Never(cm, m) == FALSE

\* switch_model: "If same model, just return current status"
SameModel(cm, m) == cm = m

\* (faulty variant: the early return is missing)
NothingLoaded_Never(cm) == FALSE

\* unload_model: "if self.current_model is None"
NothingLoaded(cm) == cm = NoModel

\* (faulty variant: the new model is not looked up before the old one is unloaded)
SwitchTargetMissing_Unchecked(m) == FALSE

\* switch_model: "Validate new model exists" - "if new_model_config is None"
SwitchTargetMissing(m) == ~InCatalog(m)

\* (faulty variant: a status query that sees the crash releases the binding)
BindingAfterStatus_Released(cm, status) == IF status = CRASHED THEN NoModel ELSE cm

\* get_status reads current_model into the snapshot and assigns nothing
BindingAfterStatus(cm, status) == cm

\* (faulty variant: the probe is issued whatever the status is)
NotRunning_Never(status) == FALSE

\* healthcheck: "if status != ProcessStatus.RUNNING"
NotRunning(status) == status # RUNNING

\* the coroutine's frame is gone
Return(c) ==
    /\ pc' = [pc EXCEPT ![c] = IDLE]
    /\ op' = [op EXCEPT ![c] = "none"]
    /\ req_model' = [req_model EXCEPT ![c] = NoModel]
    /\ req_gpu' = [req_gpu EXCEPT ![c] = NoGpu]
    /\ cont' = [cont EXCEPT ![c] = "none"]
    /\ spawned' = [spawned EXCEPT ![c] = NoPid]
    /\ old_pid' = [old_pid EXCEPT ![c] = NoPid]

\* the coroutine returns or raises: its frame is gone, the caller has the answer
Finish(c, kind, m, g, r, st, o, p) ==
    /\ Return(c)
    /\ response' = [caller |-> c, op |-> kind, result |-> r, status |-> st, stop |-> o,
                    model |-> m, gpu |-> g, pid |-> p, old |-> old_pid[c],
                    probed |-> FALSE, uptime |-> NoUptime]

\* healthcheck returns its HealthCheckResponse; probed tells whether
\* adapter.is_healthy() was awaited for it
FinishHealth(c, r, st, probed, up) ==
    /\ Return(c)
    /\ response' = [caller |-> c, op |-> "health", result |-> r, status |-> st,
                    stop |-> "none", model |-> NoModel, gpu |-> NoGpu, pid |-> NoPid,
                    old |-> old_pid[c], probed |-> probed, uptime |-> up]

\* the coroutine goes on: its frame holds the request and what it started
Suspend(c, kind, at, m, g, why, sp, old) ==
    /\ pc' = [pc EXCEPT ![c] = at]
    /\ op' = [op EXCEPT ![c] = kind]
    /\ req_model' = [req_model EXCEPT ![c] = m]
    /\ req_gpu' = [req_gpu EXCEPT ![c] = g]
    /\ cont' = [cont EXCEPT ![c] = why]
    /\ spawned' = [spawned EXCEPT ![c] = sp]
    /\ old_pid' = [old_pid EXCEPT ![c] = old]
    /\ response' = NoResponse

\* load_model up to the call of adapter.start_server (no await in between)
LoadEnter(c, kind, m, g, old) ==
    /\ UNCHANGED <<load_time, bound_gpu, os_vars, clock, reg_vars>>
    /\ \/ /\ ~InCatalog(m)
          /\ Finish(c, kind, m, g, NOT_FOUND, NoStatus, "none", NoPid)
          /\ UNCHANGED <<current_model, adapter_vars>>
       \/ /\ InCatalog(m)
          /\ AlreadyLoaded(current_model)
          /\ Finish(c, kind, m, g, ALREADY_LOADED, NoStatus, "none", NoPid)
          /\ UNCHANGED <<current_model, adapter_vars>>
       \/ /\ InCatalog(m)
          /\ ~AlreadyLoaded(current_model)
          /\ adapter_start_refused(adapter_process, os_alive)
          /\ current_model' = BindingAfterFailedLoad(current_model, m)
          /\ Finish(c, kind, m, g, START_FAILED, NoStatus, "none", NoPid)
          /\ UNCHANGED adapter_vars
       \/ /\ InCatalog(m)
          /\ ~AlreadyLoaded(current_model)
          /\ ~adapter_start_refused(adapter_process, os_alive)
          /\ adapter_status' = STARTING
          /\ adapter_process' = NoPid
          /\ Suspend(c, kind, IN_START, m, g, "none", NoPid, old)
          /\ UNCHANGED current_model

\* the call of adapter.stop_server: the adapter enters stopping
StopEnter(c, kind, why, m, g, sp, old) ==
    /\ adapter_status' = IF adapter_process = NoPid THEN adapter_status ELSE STOPPING
    /\ Suspend(c, kind, IN_STOP, m, g, why, sp, old)
    /\ UNCHANGED <<adapter_process, mgr_vars, os_vars, clock, reg_vars>>

\* a call begins
Callable(c) == pc[c] = IDLE /\ LoopFree(c)

load_model(c, m, g) ==
    /\ Callable(c)
    /\ LoadEnter(c, "load", m, g, NoPid)

\* adapter.start_server: the spawn succeeds or fails
start_server(c) ==
    /\ pc[c] = IN_START
    /\ \/ /\ next_pid <= MaxSpawns
          /\ adapter_process' = next_pid
          /\ os_alive' = os_alive \cup {next_pid}
          /\ next_pid' = next_pid + 1
          /\ Suspend(c, op[c], WAIT_READY, req_model[c], req_gpu[c], "none", next_pid,
                     old_pid[c])
          /\ UNCHANGED <<adapter_status, os_ready, current_model>>
       \/ /\ adapter_status' = CRASHED
          /\ current_model' = BindingAfterFailedLoad(current_model, req_model[c])
          /\ Finish(c, op[c], req_model[c], req_gpu[c], START_FAILED, NoStatus, "none",
                    NoPid)
          /\ UNCHANGED <<adapter_process, os_vars>>
    /\ UNCHANGED <<load_time, bound_gpu, clock, reg_vars>>

\* _wait_for_ready returns True; load_model updates its state and returns
wait_for_ready_ok(c) ==
    /\ pc[c] = WAIT_READY
    /\ LoopFree(c)
    /\ adapter_is_healthy(adapter_process, os_alive, os_ready)
    /\ adapter_status' = adapter_status_after_probe(adapter_status, TRUE)
    /\ current_model' = req_model[c]
    /\ load_time' = clock
    /\ clock' = clock + 1
    /\ bound_gpu' = req_gpu[c]
    /\ Finish(c, op[c], req_model[c], req_gpu[c], OK,
              StatusSnapshot(req_model[c], adapter_status', adapter_process, os_alive),
              "none", adapter_get_pid(adapter_process, os_alive))
    /\ UNCHANGED <<adapter_process, os_vars, reg_vars>>

\* _wait_for_ready returns False; load_model calls adapter.stop_server()
wait_for_ready_timeout(c) ==
    /\ pc[c] = WAIT_READY
    /\ LoopFree(c)
    /\ StopEnter(c, op[c], "timeout", req_model[c], req_gpu[c], spawned[c], old_pid[c])

unload_model(c) ==
    /\ Callable(c)
    /\ \/ /\ NothingLoaded(current_model)
          /\ Finish(c, "unload", NoModel, NoGpu, OK, NoStatus, "none", NoPid)
          /\ UNCHANGED <<mgr_vars, adapter_vars, os_vars, clock, reg_vars>>
       \/ /\ ~NothingLoaded(current_model)
          /\ StopEnter(c, "unload", "unload", NoModel, NoGpu, NoPid, NoPid)

\* adapter.stop_server returns; its caller runs on to its next await or end
stop_server(c) ==
    /\ pc[c] = IN_STOP
    /\ \E o \in adapter_stop_outcomes(adapter_process, os_alive) :
        /\ IF o = "nothing" \/ o = "failed"
              THEN UNCHANGED <<adapter_vars, os_vars>>
              ELSE /\ adapter_status' = STOPPED
                   /\ adapter_process' = NoPid
                   /\ os_alive' = os_alive \ {adapter_process}
                   /\ os_ready' = os_ready \ {adapter_process}
                   /\ UNCHANGED next_pid
        /\ \/ /\ cont[c] = "timeout"
              /\ current_model' = BindingAfterFailedLoad(current_model, req_model[c])
              /\ Finish(c, op[c], req_model[c], req_gpu[c], NOT_READY, NoStatus, o,
                        spawned[c])
              /\ UNCHANGED <<load_time, bound_gpu>>
           \/ /\ cont[c] = "unload"
              /\ StopFailed(adapter_stop_returns(o))
              /\ Finish(c, op[c], req_model[c], req_gpu[c], UNLOAD_FAILED, NoStatus, o,
                        NoPid)
              /\ UNCHANGED mgr_vars
           \/ /\ cont[c] = "unload"
              /\ ~StopFailed(adapter_stop_returns(o))
              /\ current_model' = NoModel
              /\ load_time' = NoTime
              /\ bound_gpu' = NoGpu
              /\ IF op[c] = "switch"
                    THEN Suspend(c, op[c], SETTLE, req_model[c], req_gpu[c], "none", NoPid,
                                 old_pid[c])
                    ELSE Finish(c, op[c], NoModel, NoGpu, OK, NoStatus, o, NoPid)
    /\ UNCHANGED <<clock, reg_vars>>

switch_model(c, m, g) ==
    /\ Callable(c)
    /\ \/ /\ SwitchTargetMissing(m)
          /\ Finish(c, "switch", m, g, NOT_FOUND, NoStatus, "none", NoPid)
          /\ UNCHANGED <<mgr_vars, adapter_vars, os_vars, clock, reg_vars>>
       \/ /\ ~SwitchTargetMissing(m)
          /\ SameModel(current_model, m)
          /\ adapter_status' = adapter_get_status(adapter_status, adapter_process, os_alive)
          /\ Finish(c, "switch", m, g, OK,
                    StatusSnapshot(current_model, adapter_status, adapter_process, os_alive),
                    "none", adapter_get_pid(adapter_process, os_alive))
          /\ UNCHANGED <<mgr_vars, adapter_process, os_vars, clock, reg_vars>>
       \/ /\ ~SwitchTargetMissing(m)
          /\ ~SameModel(current_model, m)
          /\ current_model # NoModel
          /\ StopEnter(c, "switch", "unload", m, g, NoPid, adapter_process)
       \/ /\ ~SwitchTargetMissing(m)
          /\ ~SameModel(current_model, m)
          /\ current_model = NoModel
          /\ LoadEnter(c, "switch", m, g, NoPid)

\* switch_model after its sleep(1): "Load new model"
switch_load(c) ==
    /\ pc[c] = SETTLE
    /\ LoopFree(c)
    /\ LoadEnter(c, op[c], req_model[c], req_gpu[c], old_pid[c])

get_status(c) ==
    /\ Callable(c)
    /\ adapter_status' = adapter_get_status(adapter_status, adapter_process, os_alive)
    /\ current_model' =
          BindingAfterStatus(current_model,
                             adapter_get_status(adapter_status, adapter_process, os_alive))
    /\ Finish(c, "status", current_model, NoGpu, OK,
              StatusSnapshot(current_model, adapter_status, adapter_process, os_alive),
              "none", adapter_get_pid(adapter_process, os_alive))
    /\ UNCHANGED <<load_time, bound_gpu, adapter_process, os_vars, clock, reg_vars>>

healthcheck(c) ==
    /\ Callable(c)
    /\ adapter_status' = adapter_get_status(adapter_status, adapter_process, os_alive)
    /\ LET status == adapter_get_status(adapter_status, adapter_process, os_alive)
           is_healthy == adapter_is_healthy(adapter_process, os_alive, os_ready)
           uptime == adapter_get_uptime_seconds(adapter_process)
       IN  IF NotRunning(status)
              THEN FinishHealth(c, UNHEALTHY, status, FALSE, NoUptime)
              ELSE IF is_healthy
                      THEN FinishHealth(c, HEALTHY, status, TRUE, uptime)
                      ELSE FinishHealth(c, UNHEALTHY, status, TRUE, uptime)
    /\ UNCHANGED <<mgr_vars, adapter_process, os_vars, clock, reg_vars>>

\* the caller cancels the coroutine at the await it is suspended in
cancel(c) ==
    /\ pc[c] \in {WAIT_READY, SETTLE}
    /\ Finish(c, op[c], req_model[c], req_gpu[c], CANCELLED, NoStatus, "none", spawned[c])
    /\ UNCHANGED <<mgr_vars, adapter_vars, os_vars, clock, reg_vars>>

\* ------------------------------------------------- management API handlers
\* POST /models/load, /models/unload, /models/switch pass gpu_id to manager
\* methods that take none: the call raises TypeError, answered as HTTP 500.
api_request(c, kind) ==
    /\ Callable(c)
    /\ Finish(c, kind, NoModel, NoGpu, HTTP_500, NoStatus, "none", NoPid)
    /\ UNCHANGED <<mgr_vars, adapter_vars, os_vars, clock, reg_vars>>

api_load_model(c) == api_request(c, "api_load")
api_unload_model(c) == api_request(c, "api_unload")
api_switch_model(c) == api_request(c, "api_switch")

\* ------------------------------------------------------------ environment
\* a backend process exits on its own or is killed from outside
process_exit(p) ==
    /\ p \in os_alive
    /\ os_alive' = os_alive \ {p}
    /\ os_ready' = os_ready \ {p}
    /\ response' = NoResponse
    /\ UNCHANGED <<mgr_vars, adapter_vars, next_pid, clock, reg_vars, frame_vars>>

\* a backend's health endpoint begins to answer
process_ready(p) ==
    /\ p \in os_alive \ os_ready
    /\ os_ready' = os_ready \cup {p}
    /\ response' = NoResponse
    /\ UNCHANGED <<mgr_vars, adapter_vars, os_alive, next_pid, clock, reg_vars, frame_vars>>

\* a backend stops answering its health endpoint while its process lives on
process_hang(p) ==
    /\ p \in os_ready
    /\ os_ready' = os_ready \ {p}
    /\ response' = NoResponse
    /\ UNCHANGED <<mgr_vars, adapter_vars, os_alive, next_pid, clock, reg_vars, frame_vars>>

Next ==
    \/ \E c \in Callers, m \in ModelIds, g \in GpuIds : load_model(c, m, g)
    \/ \E c \in Callers : start_server(c)
    \/ \E c \in Callers : wait_for_ready_ok(c)
    \/ \E c \in Callers : wait_for_ready_timeout(c)
    \/ \E c \in Callers : unload_model(c)
    \/ \E c \in Callers : stop_server(c)
    \/ \E c \in Callers, m \in ModelIds, g \in GpuIds : switch_model(c, m, g)
    \/ \E c \in Callers : switch_load(c)
    \/ \E c \in Callers : get_status(c)
    \/ \E c \in Callers : healthcheck(c)
    \/ \E c \in Callers : cancel(c)
    \/ \E c \in Callers : api_load_model(c)
    \/ \E c \in Callers : api_unload_model(c)
    \/ \E c \in Callers : api_switch_model(c)
    \/ \E p \in Pids : process_exit(p)
    \/ \E p \in Pids : process_ready(p)
    \/ \E p \in Pids : process_hang(p)

Spec == Init /\ [][Next]_vars

TypeOK ==
    /\ current_model \in Models \cup {NoModel}
    /\ adapter_status \in ProcessStatus
    /\ adapter_process \in Pids \cup {NoPid}
    /\ os_ready \subseteq os_alive
    /\ os_alive \subseteq Pids
    /\ Cardinality(os_alive) <= 1

\* ======================================================== process registry
\* ProcessRegistry (core/process_registry.py).  Its methods are synchronous;
\* save() is taken in steps so that what the file system holds between its
\* write and its rename can be observed.
lifecycle_vars == <<mgr_vars, adapter_vars, os_vars, clock, frame_vars, response,
                    gpu_model_mapping, detector_vars, api_vars>>

\* (faulty variant: an existing entry is kept, as dict.setdefault would)
Put_IfAbsent(f, k, v) ==
    IF k \in DOMAIN f THEN f ELSE [j \in DOMAIN f \cup {k} |-> IF j = k THEN v ELSE f[j]]

\* self.processes[gpu_id] = entry / del self.processes[gpu_id]
Put(f, k, v) == [j \in DOMAIN f \cup {k} |-> IF j = k THEN v ELSE f[j]]
Drop(f, k) == [j \in DOMAIN f \ {k} |-> f[j]]

\* (faulty variant: the status is left out of the dict)
to_dict_NoStatus(e) ==
    [pid |-> e.pid, model_id |-> e.model_id, gpu_id |-> e.gpu_id, port |-> e.port,
     command_line |-> e.command_line]

\* ProcessRegistryEntry.to_dict
to_dict(e) ==
    [pid |-> e.pid, model_id |-> e.model_id, gpu_id |-> e.gpu_id, port |-> e.port,
     command_line |-> e.command_line, status |-> e.status]

\* ProcessRegistryEntry.from_dict raises KeyError when a required key is missing
from_dict_raises(d) ==
    ~({"pid", "model_id", "gpu_id", "port", "command_line"} \subseteq DOMAIN d)

\* ProcessRegistryEntry.from_dict: status defaults to 'unknown'
from_dict(d) ==
    [pid |-> d.pid, model_id |-> d.model_id, gpu_id |-> d.gpu_id, port |-> d.port,
     command_line |-> d.command_line,
     status |-> IF "status" \in DOMAIN d THEN d.status ELSE REG_UNKNOWN]

\* save: the document written, one dict per entry
document(procs) == [k \in DOMAIN procs |-> to_dict(procs[k])]

\* (faulty variant: one corrupt entry makes load give up the whole document)
loaded_entries_AllOrNothing(doc) ==
    IF \E j \in DOMAIN doc : from_dict_raises(doc[j])
       THEN EmptyMap
       ELSE [k \in DOMAIN doc |-> from_dict(doc[k])]

\* load: the entries of a document that from_dict accepts
loaded_entries(doc) ==
    [k \in {j \in DOMAIN doc : ~from_dict_raises(doc[j])} |-> from_dict(doc[k])]

\* (faulty variant: the document is written straight to the registry file)
save_temp_path_Registry == "registry_file"

\* save: temp_file = self.registry_file.with_suffix('.tmp')
save_temp_path == "temp_file"

\* get_process / get_all_processes: the entries as stored
get_process(procs, k) == IF k \in DOMAIN procs THEN procs[k] ELSE [status |-> "none"]
get_all_processes(procs) == procs

\* verify_process: 'llama' not in process_name and 'server' not in process_name
name_contains_llama(n) == n \in {LLAMA_SERVER}
name_contains_server(n) == n \in {LLAMA_SERVER, HTTP_SERVER}
name_rejected(n) == ~name_contains_llama(n) /\ ~name_contains_server(n)
\* verify_process: process.name() raises (psutil.AccessDenied)
name_raises(n) == n = UNREADABLE

\* files a controller may find at its registry path when it starts
WellFormed0 ==
    [pid |-> 1, model_id |-> "m1", gpu_id |-> "0", port |-> 8080,
     command_line |-> <<"llama-server", "-m", "m1.gguf">>, status |-> REG_RUNNING]
Corrupt1 ==
    [model_id |-> "m1", gpu_id |-> "1", port |-> 8080,
     command_line |-> <<"llama-server", "-m", "m1.gguf">>, status |-> REG_RUNNING]
InitialFiles ==
    {AbsentFile, GarbageFile, DocFile([k \in {"0"} |-> WellFormed0]),
     DocFile([k \in {"0", "1"} |-> IF k = "0" THEN WellFormed0 ELSE Corrupt1])}

\* ProcessRegistry.__init__ over whatever the registry path holds
RegistryInit ==
    /\ current_model = NoModel
    /\ load_time = NoTime
    /\ adapter_process = NoPid
    /\ adapter_status = STOPPED
    /\ os_alive = {}
    /\ os_ready = {}
    /\ next_pid = 1
    /\ clock = 0
    /\ gpu_model_mapping = <<>>
    /\ pc = [c \in Callers |-> IDLE]
    /\ op = [c \in Callers |-> "none"]
    /\ req_model = [c \in Callers |-> NoModel]
    /\ req_gpu = [c \in Callers |-> NoGpu]
    /\ cont = [c \in Callers |-> "none"]
    /\ spawned = [c \in Callers |-> NoPid]
    /\ old_pid = [c \in Callers |-> NoPid]
    /\ response = NoResponse
    /\ bound_gpu = NoGpu
    /\ processes = EmptyMap
    /\ registry_file \in InitialFiles
    /\ temp_file = AbsentFile
    /\ os_procs = [p \in RegPids |-> NoProc]
    /\ reg_pc = REG_IDLE
    /\ reg_result = Constructed
    /\ smi = [kind |-> "missing", column |-> "none", gpus |-> <<>>]
    /\ gpu_status = NoDetection
    /\ api_result = NoApiResult
    /\ gpu_instances = <<>>

\* a method returns without saving
RegReturn(kind, r) ==
    /\ reg_pc' = REG_IDLE
    /\ reg_result' = [op |-> kind, ret |-> r]
    /\ UNCHANGED <<registry_file, temp_file>>

\* a method calls self.save() and returns r afterwards
RegSave(kind, r) ==
    /\ reg_pc' = SAVE_WRITE
    /\ reg_result' = [op |-> kind, ret |-> r]
    /\ UNCHANGED <<registry_file, temp_file>>

\* the controller stops at any point and a new one constructs its registry:
\* __init__ sets processes = {} and reads no file
registry_restart ==
    /\ processes' = EmptyMap
    /\ reg_pc' = REG_IDLE
    /\ reg_result' = Constructed
    /\ UNCHANGED <<registry_file, temp_file, os_procs, lifecycle_vars>>

registry_load ==
    /\ reg_pc = REG_IDLE
    /\ processes' = IF registry_file.kind = "doc"
                       THEN loaded_entries(registry_file.doc)
                       ELSE processes
    /\ RegReturn("load", "none")
    /\ UNCHANGED <<os_procs, lifecycle_vars>>

register_process(k, p, m, port, cmd) ==
    /\ reg_pc = REG_IDLE
    /\ processes' = Put(processes, k, [pid |-> p, model_id |-> m, gpu_id |-> k,
                                       port |-> port, command_line |-> cmd,
                                       status |-> REG_RUNNING])
    /\ RegSave("register", "none")
    /\ UNCHANGED <<os_procs, lifecycle_vars>>

unregister_process(k) ==
    /\ reg_pc = REG_IDLE
    /\ IF k \in DOMAIN processes
          THEN processes' = Drop(processes, k) /\ RegSave("unregister", "none")
          ELSE UNCHANGED processes /\ RegReturn("unregister", "none")
    /\ UNCHANGED <<os_procs, lifecycle_vars>>

verify_process(k) ==
    /\ reg_pc = REG_IDLE
    /\ \/ /\ k \notin DOMAIN processes
          /\ UNCHANGED processes
          /\ RegReturn("verify", "false")
       \/ /\ k \in DOMAIN processes
          /\ os_procs[processes[k].pid] = NoProc
          /\ processes' = [processes EXCEPT ![k].status = REG_STOPPED]
          /\ RegSave("verify", "false")
       \/ /\ k \in DOMAIN processes
          /\ os_procs[processes[k].pid] # NoProc
          /\ \/ name_raises(os_procs[processes[k].pid])
             \/ name_rejected(os_procs[processes[k].pid])
          /\ processes' = [processes EXCEPT ![k].status = REG_UNKNOWN]
          /\ RegSave("verify", "false")
       \/ /\ k \in DOMAIN processes
          /\ os_procs[processes[k].pid] # NoProc
          /\ ~name_raises(os_procs[processes[k].pid])
          /\ ~name_rejected(os_procs[processes[k].pid])
          /\ processes' = [processes EXCEPT ![k].status = REG_RUNNING]
          /\ RegReturn("verify", "true")
    /\ UNCHANGED <<os_procs, lifecycle_vars>>

\* kill_process: terminate (and kill after 10 s) or kill, then unregister
kill_process(k) ==
    /\ reg_pc = REG_IDLE
    /\ \/ /\ k \notin DOMAIN processes
          /\ UNCHANGED <<processes, os_procs>>
          /\ RegReturn("kill", "false")
       \/ /\ k \in DOMAIN processes
          /\ os_procs[processes[k].pid] = NoProc
          /\ processes' = Drop(processes, k)
          /\ UNCHANGED os_procs
          /\ RegSave("kill", "false")
       \/ /\ k \in DOMAIN processes
          /\ os_procs[processes[k].pid] # NoProc
          /\ os_procs' = [os_procs EXCEPT ![processes[k].pid] = NoProc]
          /\ processes' = Drop(processes, k)
          /\ RegSave("kill", "true")
       \/ /\ k \in DOMAIN processes
          /\ os_procs[processes[k].pid] # NoProc
          /\ UNCHANGED <<processes, os_procs>>
          /\ RegReturn("kill", "false")
    /\ UNCHANGED lifecycle_vars

\* save: json.dump into the temp path; an exception is logged and save returns
save_write ==
    /\ reg_pc = SAVE_WRITE
    /\ \E written \in {DocFile(document(processes)), PartialFile} :
          /\ IF save_temp_path = "temp_file"
                THEN temp_file' = written /\ UNCHANGED registry_file
                ELSE registry_file' = written /\ UNCHANGED temp_file
          /\ reg_pc' = IF written = PartialFile THEN REG_IDLE ELSE SAVE_RENAME
    /\ UNCHANGED <<processes, os_procs, reg_result, lifecycle_vars>>

\* save: temp_file.replace(self.registry_file)
save_rename ==
    /\ reg_pc = SAVE_RENAME
    /\ IF save_temp_path = "temp_file"
          THEN registry_file' = temp_file /\ temp_file' = AbsentFile
          ELSE UNCHANGED <<registry_file, temp_file>>
    /\ reg_pc' = REG_IDLE
    /\ UNCHANGED <<processes, os_procs, reg_result, lifecycle_vars>>

\* a process with pid p and name n appears (pids are reused)
os_spawn(p, n) ==
    /\ os_procs[p] = NoProc
    /\ os_procs' = [os_procs EXCEPT ![p] = n]
    /\ UNCHANGED <<processes, registry_file, temp_file, reg_pc, reg_result, lifecycle_vars>>

os_exit(p) ==
    /\ os_procs[p] # NoProc
    /\ os_procs' = [os_procs EXCEPT ![p] = NoProc]
    /\ UNCHANGED <<processes, registry_file, temp_file, reg_pc, reg_result, lifecycle_vars>>

RegistryNext ==
    \/ registry_restart
    \/ registry_load
    \/ \E k \in RegKeys, l \in Launches :
          register_process(k, l.pid, l.model_id, l.port, l.command_line)
    \/ \E k \in RegKeys : unregister_process(k)
    \/ \E k \in RegKeys : verify_process(k)
    \/ \E k \in RegKeys : kill_process(k)
    \/ save_write
    \/ save_rename
    \/ \E p \in RegPids, n \in ProcNames : os_spawn(p, n)
    \/ \E p \in RegPids : os_exit(p)

RegistrySpec == RegistryInit /\ [][RegistryNext]_vars

\* ------------------------------------------- registry: orphaned processes
\* find_orphaned_processes and cleanup_orphaned_processes read the OS process
\* table through psutil.  process_iter(['pid', 'name', 'cmdline']) yields the
\* live processes in ascending pid order; info['name'] is None for a process
\* whose name psutil is refused, and None.lower() raises AttributeError.
registered_pids(procs) == {procs[k].pid : k \in DOMAIN procs}

\* executable_name.lower() in process_name, executable_name = "llama-server"
name_contains_executable(n) == n \in {LLAMA_SERVER}

\* process.info['name'] is None
name_is_none(n) == n = UNREADABLE

LowestPid(S) == CHOOSE p \in S : \A q \in S : p <= q

\* the loop of find_orphaned_processes over the processes still to be
\* visited: the inner except catches NoSuchProcess and AccessDenied only, so
\* an AttributeError leaves the loop through the outer except and the list
\* collected so far is returned
RECURSIVE scan_for_orphans(_, _, _)
scan_for_orphans(pids, table, registered) ==
    IF pids = {}
       THEN <<>>
       ELSE LET p == LowestPid(pids) IN
            IF name_is_none(table[p])
               THEN <<>>
               ELSE (IF name_contains_executable(table[p]) /\ p \notin registered
                        THEN <<p>>
                        ELSE <<>>)
                    \o scan_for_orphans(pids \ {p}, table, registered)

find_orphans(procs, table) ==
    scan_for_orphans({p \in DOMAIN table : table[p] # NoProc}, table,
                     registered_pids(procs))

find_orphaned_processes ==
    /\ reg_pc = REG_IDLE
    /\ reg_pc' = REG_IDLE
    /\ reg_result' = [op |-> "find", ret |-> find_orphans(processes, os_procs)]
    /\ UNCHANGED <<processes, registry_file, temp_file, os_procs, lifecycle_vars>>

\* what one pass of the loop of cleanup_orphaned_processes can meet: the
\* process is gone (NoSuchProcess), it is terminated, or psutil raises
\* something else (AccessDenied)
terminate_outcomes(n) == IF n = NoProc THEN {"gone"} ELSE {"terminated", "error"}

\* killed_count += 1 is reached only when no call of the pass raised
killed_count_after(count, outcome) == IF outcome = "terminated" THEN count + 1 ELSE count

\* (faulty variant: an error on one orphan ends the batch)
pending_after_error_None(pending) == <<>>

\* except Exception: the error is logged and the loop goes on
pending_after_error(pending) == Tail(pending)

\* cleanup_orphaned_processes up to its loop: the orphans found, none killed
cleanup_orphaned_processes ==
    /\ reg_pc = REG_IDLE
    /\ LET found == find_orphans(processes, os_procs) IN
          /\ reg_result' = [op |-> "cleanup",
                            ret |-> [found |-> found, pending |-> found,
                                     attempted |-> {}, count |-> 0]]
          /\ reg_pc' = IF found = <<>> THEN REG_IDLE ELSE CLEANUP
    /\ UNCHANGED <<processes, registry_file, temp_file, os_procs, lifecycle_vars>>

\* one pass of the loop; the method returns killed_count after the last one
cleanup_terminate ==
    /\ reg_pc = CLEANUP
    /\ LET r == reg_result.ret
           p == Head(reg_result.ret.pending) IN
       \E outcome \in terminate_outcomes(os_procs[p]) :
          LET rest == IF outcome = "error"
                         THEN pending_after_error(r.pending)
                         ELSE Tail(r.pending) IN
          /\ os_procs' = IF outcome = "terminated"
                            THEN [os_procs EXCEPT ![p] = NoProc]
                            ELSE os_procs
          /\ reg_result' = [op |-> "cleanup",
                            ret |-> [found |-> r.found, pending |-> rest,
                                     attempted |-> r.attempted \cup {p},
                                     count |-> killed_count_after(r.count, outcome)]]
          /\ reg_pc' = IF rest = <<>> THEN REG_IDLE ELSE CLEANUP
    /\ UNCHANGED <<processes, registry_file, temp_file, lifecycle_vars>>

\* the registry over an OS in which any process may hold a pid
ReconcileInit == RegistryInit /\ registry_file = AbsentFile

ReconcileNext ==
    \/ \E k \in RegKeys, l \in Launches :
          register_process(k, l.pid, l.model_id, l.port, l.command_line)
    \/ \E k \in RegKeys : unregister_process(k)
    \/ \E k \in RegKeys : verify_process(k)
    \/ \E k \in RegKeys : kill_process(k)
    \/ find_orphaned_processes
    \/ cleanup_orphaned_processes
    \/ cleanup_terminate
    \/ save_write
    \/ save_rename
    \/ \E p \in RegPids, n \in AllProcNames : os_spawn(p, n)
    \/ \E p \in RegPids : os_exit(p)

ReconcileSpec == ReconcileInit /\ [][ReconcileNext]_vars

\* ============================================================ GPU detector
\* GpuDetector (core/gpu_detector.py): the model mapping the controller keeps
\* and detect_gpus over what nvidia-smi gives when it is called.
other_vars == <<mgr_vars, adapter_vars, os_vars, clock, frame_vars, response,
                processes, registry_file, temp_file, os_procs, reg_pc, reg_result, api_vars>>

GpuStatus(i, st, name, sel, used, total) ==
    [index |-> i, state |-> st, model_name |-> name, select_enabled |-> sel,
     memory_used |-> used, memory_total |-> total]

\* (faulty variant: the mapping is never found)
get_model_for_gpu_None(mapping, key) == NoName

\* get_model_for_gpu: self._gpu_model_mapping.get(gpu_id)
get_model_for_gpu(mapping, key) == IF key \in DOMAIN mapping THEN mapping[key] ELSE NoName

\* _run_nvidia_smi raises: RuntimeError for a missing program, a timeout or a
\* non-zero exit status; any other exception of subprocess.run passes through
run_nvidia_smi_raises(s) ==
    CASE s.kind \in {"missing", "timeout", "nonzero"} -> "RuntimeError"
      [] s.kind = "oserror" -> "OSError"
      [] OTHER -> "nothing"

\* parse_gpu_info: a GPU is taken from a line '|  <index>  <name>  TCC|WDDM'
\* followed by a line holding '<used>MiB / <total>MiB'
parse_gpu_info(s) == IF s.column \in {"TCC", "WDDM"} THEN s.gpus ELSE <<>>

\* (faulty variant: memory at the threshold counts as occupied)
exceeds_threshold_AtLeast(used) == used >= memory_threshold_mb

\* gpu.memory_used > self.memory_threshold_mb
exceeds_threshold(used) == used > memory_threshold_mb

\* the GpuStatus detect_gpus builds for one GPU; the mapping is looked up
\* under gpu.index, an int
status_of(gpu, mapping) ==
    LET model_name == get_model_for_gpu(mapping, IntKey(gpu.index)) IN
    IF exceeds_threshold(gpu.memory_used)
       THEN IF model_name # NoName
               THEN GpuStatus(gpu.index, GpuState_MODEL_LOADED, model_name, TRUE,
                              gpu.memory_used, gpu.memory_total)
               ELSE GpuStatus(gpu.index, GpuState_OCCUPIED_BY_OTHERS, OCCUPIED_NAME, FALSE,
                              gpu.memory_used, gpu.memory_total)
       ELSE GpuStatus(gpu.index, GpuState_IDLE, model_name, TRUE,
                      gpu.memory_used, gpu.memory_total)

get_cpu_fallback == <<GpuStatus(CPU_INDEX, GpuState_IDLE, NoName, TRUE, 0, 0)>>

Returned(statuses) == [op |-> "detect", raised |-> FALSE, statuses |-> statuses]
Raised == [op |-> "detect", raised |-> TRUE, statuses |-> <<>>]

\* (faulty variant: an error of the tool reaches the caller)
on_detection_error_Raise(exception) == Raised

\* except RuntimeError / except Exception: return self._get_cpu_fallback()
on_detection_error(exception) == Returned(get_cpu_fallback)

\* what detect_gpus gives its caller
detect_result(s, mapping) ==
    IF run_nvidia_smi_raises(s) # "nothing"
       THEN on_detection_error(run_nvidia_smi_raises(s))
       ELSE LET gpu_info_list == parse_gpu_info(s) IN
            IF gpu_info_list = <<>>
               THEN Returned(get_cpu_fallback)
               ELSE Returned([i \in DOMAIN gpu_info_list |->
                                 status_of(gpu_info_list[i], mapping)])

set_model_mapping(key, name) ==
    /\ gpu_model_mapping' =
          [k \in DOMAIN gpu_model_mapping \cup {key} |->
              IF k = key THEN name ELSE gpu_model_mapping[k]]
    /\ gpu_status' = Did("set_model_mapping")
    /\ UNCHANGED <<smi, other_vars>>

\* if gpu_id in self._gpu_model_mapping: del self._gpu_model_mapping[gpu_id]
mapping_without(mapping, key) ==
    IF key \in DOMAIN mapping
       THEN [k \in DOMAIN mapping \ {key} |-> mapping[k]]
       ELSE mapping

remove_model_mapping(key) ==
    /\ gpu_model_mapping' = mapping_without(gpu_model_mapping, key)
    /\ gpu_status' = Did("remove_model_mapping")
    /\ UNCHANGED <<smi, other_vars>>

\* clear_model_mapping: self.remove_model_mapping(gpu_id)
clear_model_mapping(key) ==
    /\ gpu_model_mapping' = mapping_without(gpu_model_mapping, key)
    /\ gpu_status' = Did("clear_model_mapping")
    /\ UNCHANGED <<smi, other_vars>>

detect_gpus ==
    /\ gpu_status' = detect_result(smi, gpu_model_mapping)
    /\ UNCHANGED <<smi, gpu_model_mapping, other_vars>>

\* the GPUs' memory use, or the tool itself, changes
nvidia_smi_changes(s) ==
    /\ smi' = s
    /\ gpu_status' = NoDetection
    /\ UNCHANGED <<gpu_model_mapping, other_vars>>

DetectorNext ==
    \/ \E key \in GpuKeys, name \in ModelNames : set_model_mapping(key, name)
    \/ \E key \in GpuKeys : remove_model_mapping(key)
    \/ \E key \in GpuKeys : clear_model_mapping(key)
    \/ detect_gpus
    \/ \E s \in SmiStates : nvidia_smi_changes(s)

DetectorSpec == Init /\ [][DetectorNext]_vars

\* ======================================================= compatibility proxy
\* The Ollama-compatible endpoints (api/ollama.py) in front of the manager.
\* One client of the management operations drives the manager here.
Operator == "c1"

\* request.options: a dict from option names to values
OptionNames == {"temperature", "top_p", "top_k", "num_predict"}
OptionValue(n) ==
    CASE n = "temperature" -> 1
      [] n = "top_p" -> 2
      [] n = "top_k" -> 40
      [] n = "num_predict" -> 128
RequestOptions == {{<<n, OptionValue(n)>> : n \in S} : S \in SUBSET OptionNames}

\* request.stream: Optional[bool]
StreamFlags == {"None", "True", "False"}

\* what the process listening on the backend port answers with
BackendStatuses == {HTTP_200_OK, HTTP_201_CREATED, HTTP_503_SERVICE_UNAVAILABLE}

\* the value of option n in the dict, as a set holding <<name, value>> under
\* the name it is forwarded with
Mapped(opts, n, native) == {<<native, o[2]>> : o \in {q \in opts : q[1] = n}}

\* generate: "Map Ollama options to llama.cpp parameters"
generate_options(opts) ==
    Mapped(opts, "temperature", "temperature") \cup Mapped(opts, "top_p", "top_p")
      \cup Mapped(opts, "top_k", "top_k") \cup Mapped(opts, "num_predict", "n_predict")

\* chat: "if request.options:"
chat_options(opts) ==
    Mapped(opts, "temperature", "temperature") \cup Mapped(opts, "top_p", "top_p")

\* "stream": request.stream if request.stream is not None else True
llama_stream(flag) == IF flag = "None" THEN TRUE ELSE flag = "True"

\* verify_model_loaded raises HTTP 503 when current_model is None
verify_model_loaded_raises(cm) == cm = NoModel

\* what a POST to the backend port meets: the answer of a live backend
\* process, or no listener at all
backend_answers(alive) == IF alive = {} THEN {REFUSED} ELSE BackendStatuses

\* the answer when the request is streamed: StreamingResponse over
\* _stream_llama_cpp_response, which relays the lines and reads no status
streamed_response(a) ==
    [code |-> HTTP_200_OK, detail |-> "none",
     body |-> IF a = REFUSED THEN "stream aborted" ELSE "backend lines"]

\* the answer when the request is not streamed
buffered_response(a, failed) ==
    IF a = REFUSED
       THEN [code |-> HTTP_500_INTERNAL_SERVER_ERROR, detail |-> failed, body |-> "none"]
       ELSE IF a # HTTP_200_OK
               THEN [code |-> a, detail |-> "llama.cpp error", body |-> "none"]
               ELSE [code |-> HTTP_200_OK, detail |-> "none", body |-> "converted"]

\* the dependency raised: nothing is sent
no_model_answer(endpoint, opts, flag) ==
    [NoApiResult EXCEPT
       !.endpoint = endpoint, !.code = HTTP_503_SERVICE_UNAVAILABLE,
       !.detail = "No model is currently loaded", !.options = opts, !.stream = flag]

\* the handler ran: llama_request was posted and met the answer a
proxied_answer(endpoint, opts, flag, forwarded, failed, a) ==
    LET r == IF llama_stream(flag) THEN streamed_response(a)
                                   ELSE buffered_response(a, failed)
    IN  [NoApiResult EXCEPT
           !.endpoint = endpoint, !.code = r.code, !.detail = r.detail, !.body = r.body,
           !.sent = TRUE, !.forwarded = forwarded, !.options = opts, !.stream = flag,
           !.answer = a]

\* a request handler runs when no blocking adapter call holds the event loop
LoopIdle == \A c \in Callers : pc[c] \notin {IN_START, IN_STOP}

proxy_unchanged ==
    <<mgr_vars, adapter_vars, os_vars, clock, frame_vars, response, processes,
      gpu_model_mapping, registry_file, temp_file, os_procs, reg_pc, reg_result,
      detector_vars, gpu_instances>>

\* POST /api/generate
generate(opts, flag) ==
    /\ LoopIdle
    /\ IF verify_model_loaded_raises(current_model)
          THEN api_result' = no_model_answer("generate", opts, flag)
          ELSE \E a \in backend_answers(os_alive) :
                 api_result' = proxied_answer("generate", opts, flag, generate_options(opts),
                                              "Generation failed", a)
    /\ UNCHANGED proxy_unchanged

\* POST /api/chat
chat(opts, flag) ==
    /\ LoopIdle
    /\ IF verify_model_loaded_raises(current_model)
          THEN api_result' = no_model_answer("chat", opts, flag)
          ELSE \E a \in backend_answers(os_alive) :
                 api_result' = proxied_answer("chat", opts, flag, chat_options(opts),
                                              "Chat failed", a)
    /\ UNCHANGED proxy_unchanged

ProxyNext ==
    \/ \E m \in ModelIds : load_model(Operator, m, 0)
    \/ start_server(Operator)
    \/ wait_for_ready_ok(Operator)
    \/ unload_model(Operator)
    \/ stop_server(Operator)
    \/ \E p \in Pids : process_exit(p)
    \/ \E p \in Pids : process_ready(p)
    \/ \E opts \in RequestOptions, flag \in StreamFlags : generate(opts, flag)
    \/ \E opts \in RequestOptions, flag \in StreamFlags : chat(opts, flag)

ProxySpec == Init /\ [][ProxyNext]_vars

\* ===================================================== per-GPU status endpoint
\* GET /gpu/{gpu_id}/status (api/management.py) in front of the manager's
\* backends by resource key.
BothKey == [type |-> "both", devices |-> <<>>]
\* a path segment that names no device, such as "abc"
BadKey == [type |-> "bad", devices |-> <<>>]

\* gpu_id as the route receives it: "0", "1", "0,1", "1,0", "both", "abc"
PathParams == {StrKey(<<0>>), StrKey(<<1>>), StrKey(<<0, 1>>), StrKey(<<1, 0>>),
               BothKey, BadKey}

\* gpu_id as load takes it: 0, 1, "0", "0,1", "1,0", "both"
LoadKeys == {IntKey(0), IntKey(1), StrKey(<<0>>), StrKey(<<0, 1>>), StrKey(<<1, 0>>),
             BothKey}

\* the devices of a set in ascending order
RECURSIVE Ascending(_)
Ascending(S) ==
    IF S = {} THEN <<>>
    ELSE LET least == CHOOSE i \in S : \A j \in S : i <= j
         IN  <<least>> \o Ascending(S \ {least})

\* _normalize_gpu_id rejects what names no devices (InvalidResourceKey)
normalize_gpu_id_raises(x) == x.type = "bad"

\* _normalize_gpu_id: int, numeric string, comma-joined string or "both" to
\* the canonical string: ascending, comma-joined; "both" is "0,1"
normalize_gpu_id(x) ==
    IF x.type = "both" THEN StrKey(<<0, 1>>)
    ELSE StrKey(Ascending({x.devices[i] : i \in DOMAIN x.devices}))

\* the manager binds a model to the key its load is given
keyed_load(x, m) ==
    /\ ~normalize_gpu_id_raises(x)
    /\ normalize_gpu_id(x) \notin DOMAIN gpu_instances
    /\ gpu_instances' = Put(gpu_instances, normalize_gpu_id(x), m)
    /\ api_result' = [NoApiResult EXCEPT !.endpoint = "manager load", !.path = x,
                                         !.entry = m]
    /\ UNCHANGED <<mgr_vars, adapter_vars, os_vars, clock, frame_vars, response, processes,
                   gpu_model_mapping, registry_file, temp_file, os_procs, reg_pc,
                   reg_result, detector_vars>>

\* the manager releases the key its unload is given
keyed_unload(x) ==
    /\ ~normalize_gpu_id_raises(x)
    /\ normalize_gpu_id(x) \in DOMAIN gpu_instances
    /\ gpu_instances' = Drop(gpu_instances, normalize_gpu_id(x))
    /\ api_result' = [NoApiResult EXCEPT !.endpoint = "manager unload", !.path = x]
    /\ UNCHANGED <<mgr_vars, adapter_vars, os_vars, clock, frame_vars, response, processes,
                   gpu_model_mapping, registry_file, temp_file, os_procs, reg_pc,
                   reg_result, detector_vars>>

\* lifecycle.get_gpu_status(gpu_id): the entry under the key, or None
lifecycle_get_gpu_status(x, instances) ==
    IF normalize_gpu_id(x) \in DOMAIN instances
       THEN instances[normalize_gpu_id(x)]
       ELSE NoModel

\* int(gpu_id) raises ValueError unless the text is one integer
int_raises(p) == ~(p.type \in {"int", "str"} /\ Len(p.devices) = 1)

\* what the name `status` refers to inside get_gpu_status: the function
\* assigns it (status = await ...), so it is a local variable throughout
UNBOUND == "unbound local"
NONE == "None"

\* evaluating status.HTTP_... with the local `status` unbound or None raises
\* (UnboundLocalError, AttributeError)
status_attribute_raises(local) == local \in {UNBOUND, NONE}

\* raise HTTPException(status_code=status.HTTP_..., detail=...); an
\* exception that leaves the handler instead is answered by the server
raise_http(local, code, detail) ==
    IF status_attribute_raises(local)
       THEN [code |-> HTTP_500_INTERNAL_SERVER_ERROR, detail |-> "Internal Server Error"]
       ELSE [code |-> code, detail |-> detail]

\* the same raise inside the try block: what evaluating it raises instead is
\* caught by "except Exception", whose own raise is evaluated the same way
raise_http_in_try(local, code, detail) ==
    IF status_attribute_raises(local)
       THEN raise_http(local, HTTP_500_INTERNAL_SERVER_ERROR, "Failed to get GPU status")
       ELSE [code |-> code, detail |-> detail]

\* the body of get_gpu_status
get_gpu_status_answer(p, instances) ==
    IF p # BothKey /\ int_raises(p)
       THEN \* except ValueError, reached before `status` is assigned
            LET h == raise_http(UNBOUND, HTTP_400_BAD_REQUEST, "Invalid GPU ID")
            IN  [code |-> h.code, detail |-> h.detail, entry |-> NoModel]
       ELSE LET gpu_param == IF p = BothKey THEN BothKey ELSE IntKey(p.devices[1])
                status == lifecycle_get_gpu_status(gpu_param, instances)
            IN  IF status = NoModel
                   THEN LET h == raise_http_in_try(NONE, HTTP_404_NOT_FOUND,
                                                   "No model loaded on GPU")
                        IN  [code |-> h.code, detail |-> h.detail, entry |-> NoModel]
                   ELSE [code |-> HTTP_200_OK, detail |-> "none", entry |-> status]

\* GET /gpu/{gpu_id}/status
api_get_gpu_status(p) ==
    /\ LET r == get_gpu_status_answer(p, gpu_instances)
       IN  api_result' = [NoApiResult EXCEPT
             !.endpoint = "gpu_status", !.code = r.code, !.detail = r.detail,
             !.path = p, !.entry = r.entry]
    /\ UNCHANGED <<mgr_vars, adapter_vars, os_vars, clock, frame_vars, response, processes,
                   gpu_model_mapping, registry_file, temp_file, os_procs, reg_pc,
                   reg_result, detector_vars, gpu_instances>>

GpuApiNext ==
    \/ \E x \in LoadKeys, m \in Models : keyed_load(x, m)
    \/ \E x \in LoadKeys : keyed_unload(x)
    \/ \E p \in PathParams : api_get_gpu_status(p)

GpuApiSpec == Init /\ [][GpuApiNext]_vars

\* ================================================ cleanup beside the manager
\* ProcessRegistry.cleanup_orphaned_processes run on the machine on which the
\* manager starts its backends: psutil sees the manager's subprocesses.
\* what psutil.process_iter gives for the manager's subprocesses
backend_table(alive) == [p \in Pids |-> IF p \in alive THEN LLAMA_SERVER ELSE NoProc]

\* the whole method: the orphans are found, then each is terminated in turn
cleanup_orphans ==
    /\ LoopIdle
    /\ reg_pc = REG_IDLE
    /\ LET found == find_orphans(processes, backend_table(os_alive))
           pids == {found[i] : i \in DOMAIN found}
       IN  \E outcome \in [pids -> {"terminated", "error"}] :
              LET killed == {p \in pids : outcome[p] = "terminated"} IN
              /\ \A p \in pids : outcome[p] \in terminate_outcomes(backend_table(os_alive)[p])
              /\ os_alive' = os_alive \ killed
              /\ os_ready' = os_ready \ killed
              /\ reg_result' = [op |-> "cleanup",
                                ret |-> [found |-> found, pending |-> <<>>,
                                         attempted |-> pids,
                                         count |-> Cardinality(killed)]]
    /\ response' = NoResponse
    /\ UNCHANGED <<mgr_vars, adapter_vars, next_pid, clock, frame_vars, processes,
                   gpu_model_mapping, registry_file, temp_file, os_procs, reg_pc,
                   detector_vars, api_vars>>

OwnershipNext ==
    \/ \E m \in ModelIds, g \in GpuIds : load_model(Operator, m, g)
    \/ start_server(Operator)
    \/ wait_for_ready_ok(Operator)
    \/ wait_for_ready_timeout(Operator)
    \/ unload_model(Operator)
    \/ stop_server(Operator)
    \/ get_status(Operator)
    \/ \E p \in Pids : process_exit(p)
    \/ \E p \in Pids : process_ready(p)
    \/ cleanup_orphans

OwnershipSpec == Init /\ [][OwnershipNext]_vars

\* ===================================================================== claims
InProgress(c) == pc[c] # IDLE

TransitionOps == {"load", "unload", "switch"}

\* c's call is accepted in this step: it suspends, or it returns success
Accepted(c) ==
    /\ pc[c] = IDLE
    /\ \/ pc'[c] # IDLE
       \/ /\ response'.caller = c
          /\ response'.op \in TransitionOps
          /\ response'.result = OK

\* C1: while a load, unload or switch is in progress no other load, unload
\* or switch is accepted: a second call is rejected with an error or starts
\* after the first has finished, and two subprocesses are never alive at once.
C1_MutualExclusion ==
    [][ /\ \A c \in Callers :
              Accepted(c) => \A d \in Callers \ {c} : ~InProgress(d)
        /\ Cardinality(os_alive') <= 1 ]_vars

\* a load call by c is decided or suspended in this step
LoadCalled(c) ==
    /\ pc[c] = IDLE
    /\ \/ response'.caller = c /\ response'.op = "load"
       \/ pc'[c] # IDLE /\ op'[c] = "load"

\* C2: a load while a backend is bound fails (already loaded for a catalogued
\* backend id, not found for an unknown one), starts no subprocess and leaves
\* the bound backend, its load time, its subprocess and the registry as they are.
C2_LoadOnBoundKeyRejected ==
    [][ \A c \in Callers :
          (LoadCalled(c) /\ current_model # NoModel) =>
              /\ response'.caller = c
              /\ response'.result =
                    IF response'.model \in Models THEN ALREADY_LOADED ELSE NOT_FOUND
              /\ UNCHANGED <<current_model, load_time, bound_gpu, adapter_process,
                             adapter_status, os_alive, next_pid, processes,
                             gpu_model_mapping>> ]_vars

C2_Witness ==
    /\ response.op = "load"
    /\ response.result = ALREADY_LOADED
    /\ current_model # NoModel
    /\ adapter_is_running(adapter_process, os_alive)

\* C3: after an unload of a bound key, however the termination of the
\* subprocess ended, no backend is bound (so a following load is not rejected
\* as already loaded).
C3_UnloadAlwaysFrees ==
    (response.op = "unload" /\ response.stop # "none") => current_model = NoModel

\* C4: after a load that failed at the spawn or at the readiness deadline, with
\* no other call in progress, nothing of the attempt remains: its subprocess is
\* not alive, nothing is bound, registered or annotated, and the status is
\* stopped or crashed.
C4_FailedLoadLeavesNothing ==
    (/\ response.op = "load"
     /\ response.result \in {START_FAILED, NOT_READY}
     /\ \A c \in Callers : ~InProgress(c))
    => /\ response.pid \notin os_alive
       /\ current_model = NoModel
       /\ DOMAIN processes = {}
       /\ DOMAIN gpu_model_mapping = {}
       /\ adapter_get_status(adapter_status, adapter_process, os_alive) \in {STOPPED, CRASHED}

\* C5: when a load is cancelled while it polls for readiness, the subprocess
\* that this load started is terminated.
C5_CancelledLoadTerminatesSubprocess ==
    (response.result = CANCELLED /\ response.pid # NoPid) => response.pid \notin os_alive

\* a status or health query by c is answered in this step
Queried(c) == response'.caller = c /\ response'.op \in {"status", "health"}

\* C6: when the subprocess of a running backend has exited out-of-band, the
\* first status or health query after the exit reports crashed; nothing but
\* the query itself is needed for that.
C6_CrashSeenByFirstQuery ==
    [][ \A c \in Callers :
          (/\ Queried(c)
           /\ adapter_status = RUNNING
           /\ adapter_process # NoPid
           /\ adapter_process \notin os_alive)
          => response'.status = CRASHED ]_vars

C6_Witness ==
    /\ response.op = "status"
    /\ response.status = CRASHED
    /\ current_model # NoModel
    /\ adapter_process # NoPid

\* C7 as stated: the status changes only along stopped-starting,
\* starting-running, starting-crashed, running-stopping, stopping-stopped and
\* running-crashed.
C7_StatedTransitions ==
    {<<STOPPED, STARTING>>, <<STARTING, RUNNING>>, <<STARTING, CRASHED>>,
     <<RUNNING, STOPPING>>, <<STOPPING, STOPPED>>, <<RUNNING, CRASHED>>}

C7_AmendedTransitions ==
    C7_StatedTransitions \cup
    {<<STARTING, STOPPING>>, <<CRASHED, STOPPING>>, <<CRASHED, STARTING>>,
     <<STOPPING, STARTING>>}

KeyOf(g) == ToString(g)

C8_RegistryFollowsBindings ==
    /\ (response.op = "load" /\ response.result = OK) =>
          /\ KeyOf(response.gpu) \in DOMAIN processes
          /\ processes[KeyOf(response.gpu)].pid = response.pid
          /\ KeyOf(response.gpu) \in DOMAIN gpu_model_mapping
          /\ gpu_model_mapping[KeyOf(response.gpu)] = response.model
    /\ (response.op = "unload" /\ response.result = OK) =>
          /\ DOMAIN processes = {}
          /\ DOMAIN gpu_model_mapping = {}

\* C9: a load is rejected as already loaded only when the backend that is
\* bound is bound to the key the load names: a backend on another key never
\* blocks it.
C9_DistinctKeysIndependent ==
    (response.op = "load" /\ response.result = ALREADY_LOADED) => response.gpu = bound_gpu

\* C10: at most one subprocess of the controller is alive at any moment, and
\* once a switch is past its unload (settling, spawning or waiting for the new
\* subprocess) the old subprocess is dead.
C10_OneLiveSubprocess ==
    /\ Cardinality(os_alive) <= 1
    /\ \A c \in Callers :
          (op[c] = "switch" /\ pc[c] \in {SETTLE, IN_START, WAIT_READY} /\ old_pid[c] # NoPid)
          => old_pid[c] \notin os_alive

C10_Witness ==
    \E c \in Callers :
        /\ op[c] = "switch"
        /\ pc[c] = WAIT_READY
        /\ old_pid[c] # NoPid
        /\ spawned[c] \in os_alive

\* c's switch is in its load of the new backend, after it unloaded the old one
SwitchInLoad(c) ==
    /\ op[c] = "switch"
    /\ old_pid[c] # NoPid
    /\ \/ pc[c] \in {SETTLE, IN_START}
       \/ pc[c] = IN_STOP /\ cont[c] = "timeout"

\* C11: when switch has unloaded the old backend and its load of the new one
\* fails (nobody else having bound a backend meanwhile), switch reports the
\* failure of the load and nothing is bound: the old backend is not restored.
C11_FailedSwitchLeavesUnloaded ==
    [][ \A c \in Callers :
          (/\ SwitchInLoad(c)
           /\ pc'[c] = IDLE
           /\ response'.result # CANCELLED
           /\ current_model = NoModel)
          => /\ response'.caller = c
             /\ response'.op = "switch"
             /\ response'.result \in {START_FAILED, NOT_READY}
             /\ current_model' = NoModel
             /\ load_time' = NoTime
             /\ bound_gpu' = NoGpu ]_vars

C11_Witness ==
    /\ response.op = "switch"
    /\ response.result = NOT_READY
    /\ response.old # NoPid
    /\ response.old \notin os_alive
    /\ current_model = NoModel

\* c calls switch for model m in this step
SwitchCalled(c, m) ==
    /\ pc[c] = IDLE
    /\ \/ response'.caller = c /\ response'.op = "switch" /\ response'.model = m
       \/ pc'[c] # IDLE /\ op'[c] = "switch" /\ req_model'[c] = m

C13_LoadSuccessMeansRunning ==
    [][ \A c \in Callers :
          (op[c] = "load" /\ response'.caller = c /\ response'.result = OK)
          => /\ current_model' = req_model[c]
             /\ response'.status = RUNNING
             /\ response'.pid = spawned[c]
             /\ spawned[c] \in os_alive' ]_vars

\* C14: load with an id that is not in the catalog fails with not found,
\* spawns no subprocess and leaves the bound backend, the load time and the
\* status as they are.
C14_LoadUnknownIsNotFound ==
    [][ \A c \in Callers :
          (/\ LoadCalled(c)
           /\ \/ response'.caller = c /\ response'.model = UnknownModel
              \/ pc'[c] # IDLE /\ req_model'[c] = UnknownModel)
          => /\ response'.caller = c
             /\ response'.result = NOT_FOUND
             /\ UNCHANGED <<current_model, load_time, bound_gpu, adapter_process,
                            adapter_status, os_alive, os_ready, next_pid>> ]_vars

C14_Witness ==
    /\ response.op = "load"
    /\ response.model = UnknownModel
    /\ response.result = NOT_FOUND
    /\ current_model # NoModel

\* an unload call by c is decided or suspended in this step
UnloadCalled(c) ==
    /\ pc[c] = IDLE
    /\ \/ response'.caller = c /\ response'.op = "unload"
       \/ pc'[c] # IDLE /\ op'[c] = "unload"

\* C15: unload with nothing bound returns success, stops no process (even one
\* that is still alive) and changes no state.
C15_UnloadUnboundIsNoOp ==
    [][ \A c \in Callers :
          (UnloadCalled(c) /\ current_model = NoModel)
          => /\ response'.caller = c
             /\ response'.result = OK
             /\ UNCHANGED <<current_model, load_time, bound_gpu, adapter_process,
                            adapter_status, os_alive, os_ready, next_pid, clock,
                            processes, gpu_model_mapping>> ]_vars

C15_Witness ==
    /\ response.op = "unload"
    /\ response.result = OK
    /\ response.stop = "none"
    /\ current_model = NoModel
    /\ os_alive # {}

\* the well-formed entries of the registry file
FileEntries == loaded_entries(registry_file.doc)

\* C16: right after construction over an existing registry file, the registry
\* contains every well-formed entry of that file.
C16_ConstructedRegistryHasFileEntries ==
    (reg_result.op = "construct" /\ registry_file.kind = "doc")
    => \A k \in DOMAIN FileEntries :
          k \in DOMAIN processes /\ processes[k] = FileEntries[k]

\* the recorded pid is a live backend process
LiveBackend(e) == os_procs[e.pid] = LLAMA_SERVER

\* C17: after the registry is loaded at startup, no entry whose recorded pid is
\* not a live backend process is reported with status running by get_process
\* or get_all_processes.
C17_LoadedEntriesAreVerified ==
    [][ registry_load =>
          \A k \in DOMAIN get_all_processes(processes') :
              get_process(processes', k).status = REG_RUNNING
              => LiveBackend(get_process(processes', k)) ]_vars

MutatingOps == {"register", "unregister", "kill", "verify"}

\* C18: when register, unregister, kill_process or verify returns after it
\* changed the in-memory map of entries, the registry file holds exactly that map.
C18_FileHoldsMemoryAfterMutation ==
    [][ (/\ reg_result'.op \in MutatingOps
         /\ reg_pc' = REG_IDLE
         /\ reg_pc # REG_IDLE \/ processes' # processes)
        => registry_file' = DocFile(document(processes')) ]_vars

\* C19: the registry file never holds a partially written document: whenever
\* its content changes, at any step of save and whatever fails or stops in
\* between, the new content is the complete document of the in-memory map.
C19_SaveNeverExposesPartialFile ==
    [][ /\ registry_file'.kind # "partial"
        /\ registry_file' # registry_file
           => registry_file' = DocFile(document(processes)) ]_vars

C19_Witness ==
    /\ reg_result.op = "construct"
    /\ temp_file.kind = "doc"
    /\ registry_file.kind = "doc"
    /\ temp_file # registry_file

SameEntries(a, b) ==
    /\ DOMAIN a = DOMAIN b
    /\ \A k \in DOMAIN a :
          /\ a[k].pid = b[k].pid
          /\ a[k].gpu_id = b[k].gpu_id
          /\ a[k].port = b[k].port
          /\ a[k].status = b[k].status

\* C21: saving the registry and then loading it from the file yields a
\* registry with the same keys and, for each key, the same pid, resource key,
\* port and status: when save completes, what load makes of the file is the
\* registry in memory, and a load from the file a save of the registry in
\* memory wrote leaves every entry as it was.
C21_SaveThenLoadRoundTrips ==
    [][/\ save_rename =>
             /\ registry_file'.kind = "doc"
             /\ SameEntries(loaded_entries(registry_file'.doc), processes')
       /\ (registry_load /\ registry_file = DocFile(document(processes))) =>
             SameEntries(processes', processes)]_vars

\* a registry of two entries, one of them not running, has been saved and
\* loaded again
C21_Witness ==
    /\ reg_result.op = "load"
    /\ reg_pc = REG_IDLE
    /\ registry_file = DocFile(document(processes))
    /\ DOMAIN processes = RegKeys
    /\ \E k \in DOMAIN processes : processes[k].status # REG_RUNNING

\* ------------------------------------------------------------------- C22
\* C22: register(key, ...) overwrites any existing entry for key: afterwards
\* the registry holds one entry for key, carrying the new pid, backend id,
\* port and command line with status running, and the entries of all other
\* keys are unchanged.
C22_RegisterOverwrites ==
    [][\A k \in RegKeys, l \in Launches :
          register_process(k, l.pid, l.model_id, l.port, l.command_line) =>
             /\ DOMAIN processes' = DOMAIN processes \cup {k}
             /\ processes'[k].pid = l.pid
             /\ processes'[k].model_id = l.model_id
             /\ processes'[k].port = l.port
             /\ processes'[k].command_line = l.command_line
             /\ processes'[k].status = REG_RUNNING
             /\ \A j \in DOMAIN processes \ {k} : processes'[j] = processes[j]]_vars

\* register has just replaced the entry of a key by another launch (the file
\* still holds the old entry) while the other key kept its entry
C22_Witness ==
    /\ reg_result.op = "register"
    /\ reg_pc = SAVE_WRITE
    /\ registry_file.kind = "doc"
    /\ DOMAIN processes = RegKeys
    /\ DOMAIN registry_file.doc = RegKeys
    /\ \E k \in RegKeys :
          /\ registry_file.doc[k] = to_dict(WellFormed0)
          /\ processes[k].pid = 2
          /\ processes[k].model_id = "m2"
          /\ \A j \in RegKeys \ {k} : registry_file.doc[j] = to_dict(processes[j])

\* ------------------------------------------------------------------- C23
\* C23: verify(key) returns true only when a live OS process with the
\* recorded pid exists and its OS-reported name matches the backend
\* executable; it returns false when no process has that pid and when the pid
\* now belongs to a process whose name does not match the backend executable,
\* and in the false cases the entry's status is no longer running.
C23_VerifyTrueOnlyForBackend ==
    [][\A k \in RegKeys :
          (verify_process(k) /\ k \in DOMAIN processes) =>
             LET n == os_procs[processes[k].pid] IN
             /\ reg_result'.ret = "true" => n = LLAMA_SERVER
             /\ n # LLAMA_SERVER => reg_result'.ret = "false"
             /\ reg_result'.ret = "false" => processes'[k].status # REG_RUNNING]_vars

\* ------------------------------------------------------------------- C24
\* the elements of a list
Elements(seq) == {seq[i] : i \in DOMAIN seq}

\* C24: find_orphans(name) returns exactly the pids of the live processes
\* whose name matches the executable name and whose pid is not recorded in
\* any registry entry: every such process is included, and no process
\* recorded in the registry is.
C24_FindOrphansIsExact ==
    [][find_orphaned_processes =>
          Elements(reg_result'.ret) =
             {p \in RegPids : /\ os_procs[p] = LLAMA_SERVER
                              /\ \A k \in DOMAIN processes : processes[k].pid # p}]_vars

\* ------------------------------------------------------------------- C25
\* C25: cleanup_orphans attempts to terminate every orphan it finds: a
\* failure to terminate one orphan never prevents the attempt on the
\* remaining ones, and the returned count equals the number of orphans that
\* were terminated.  Every pass of the loop adds to the count the processes it
\* ended, and when the method returns every orphan found has had its pass.
C25_CleanupAttemptsEveryOrphan ==
    [][cleanup_terminate =>
          /\ reg_result'.ret.count =
                reg_result.ret.count
                + Cardinality({p \in RegPids : os_procs[p] # NoProc /\ os_procs'[p] = NoProc})
          /\ reg_pc' = REG_IDLE =>
                reg_result'.ret.attempted = Elements(reg_result'.ret.found)]_vars

\* two orphans were found; the first could not be terminated, the second was,
\* and cleanup returned 1
C25_Witness ==
    /\ reg_result.op = "cleanup"
    /\ reg_pc = REG_IDLE
    /\ reg_result.ret.found = <<1, 2>>
    /\ reg_result.ret.attempted = {1, 2}
    /\ reg_result.ret.count = 1
    /\ os_procs[1] = LLAMA_SERVER
    /\ os_procs[2] = NoProc

\* ------------------------------------------------------------------- C26
\* detect_gpus has just returned, and nvidia-smi gave an output whose GPU
\* table it reads
Detected == gpu_status.op = "detect" /\ ~gpu_status.raised
TableRead == smi.kind = "output" /\ smi.column \in {"TCC", "WDDM"} /\ smi.gpus # <<>>

\* the detector holds a model name for the device under its index
Annotated(d) == IntKey(d) \in DOMAIN gpu_model_mapping

C27_FallbackOnToolFailure ==
    (gpu_status.op = "detect"
     /\ (smi.kind \in {"missing", "timeout", "nonzero"}
         \/ (smi.kind = "output" /\ ~TableRead))) =>
       /\ ~gpu_status.raised
       /\ Len(gpu_status.statuses) = 1
       /\ gpu_status.statuses[1].index = -1
       /\ gpu_status.statuses[1].state = GpuState_IDLE

\* detect was called while nvidia-smi does not answer, and returned the one
\* CPU entry
C27_Witness ==
    /\ gpu_status.op = "detect"
    /\ smi.kind = "timeout"
    /\ ~gpu_status.raised
    /\ Len(gpu_status.statuses) = 1
    /\ gpu_status.statuses[1].index = -1

\* ------------------------------------------------------------------- C28
\* the keys of the mapping that cover device d
CoveringKeys(d) ==
    {key \in DOMAIN gpu_model_mapping : \E j \in DOMAIN key.devices : key.devices[j] = d}

\* C28: the annotation overlay works for single-device and composite keys:
\* after set_model_mapping(key, name), where key is a single device (an int
\* or a numeric string) or a composite key such as "0,1", every device
\* covered by key whose used memory exceeds the threshold is classified
\* model_loaded with that name by detect, and after clear_model_mapping(key)
\* it no longer is.
C28_OverlayCoversEveryKeyForm ==
    (Detected /\ TableRead) =>
       \A i \in DOMAIN smi.gpus :
          LET gpu == smi.gpus[i]
              st == gpu_status.statuses[i] IN
          gpu.memory_used > memory_threshold_mb =>
             IF CoveringKeys(gpu.index) # {}
                THEN /\ st.state = GpuState_MODEL_LOADED
                     /\ st.model_name \in {gpu_model_mapping[key] : key \in CoveringKeys(gpu.index)}
                ELSE st.state # GpuState_MODEL_LOADED

C30_EntriesAreValid ==
    Detected =>
       \A i \in DOMAIN gpu_status.statuses :
          LET st == gpu_status.statuses[i] IN
          /\ st.memory_total > 0
          /\ st.memory_used >= 0
          /\ st.state \in {GpuState_IDLE, GpuState_MODEL_LOADED, GpuState_OCCUPIED_BY_OTHERS}

\* ------------------------------------------------------------------- C39
\* C39: a switch to an id that is not in the catalog is answered not-found
\* before anything is unloaded: the bound model stays bound, the adapter is
\* not asked to stop and its subprocess stays as it was.
C39_UnknownSwitchLeavesBinding ==
    [][ \A c \in Callers, g \in GpuIds :
          (switch_model(c, UnknownModel, g) /\ current_model # NoModel)
          => /\ response'.result = NOT_FOUND
             /\ current_model' = current_model
             /\ adapter_status' = adapter_status
             /\ adapter_process' = adapter_process
             /\ os_alive' = os_alive
             /\ pc'[c] = IDLE ]_vars

C39_Witness ==
    /\ response.op = "switch"
    /\ response.model = UnknownModel
    /\ response.result = NOT_FOUND
    /\ current_model # NoModel
    /\ adapter_status = RUNNING
    /\ adapter_process \in os_alive

\* ------------------------------------------------------------------- C35
\* the health answer given to c in this step
HealthAnswered(c) == healthcheck(c)

\* C35: healthcheck answers healthy only when the status it read is running
\* and the probe it then made succeeded; when the status is running and the
\* probe fails it answers unhealthy with status running; when the status is
\* not running it answers unhealthy with that status, makes no probe and
\* gives no uptime.
C35_HealthcheckCases ==
    [][ \A c \in Callers :
          HealthAnswered(c) =>
            LET status == adapter_get_status(adapter_status, adapter_process, os_alive)
                answers == adapter_is_healthy(adapter_process, os_alive, os_ready)
            IN  /\ response'.status = status
                /\ response'.result = HEALTHY
                      <=> (status = RUNNING /\ response'.probed /\ answers)
                /\ (status = RUNNING /\ ~answers)
                      => /\ response'.result = UNHEALTHY
                         /\ response'.status = RUNNING
                         /\ response'.probed
                /\ status # RUNNING
                      => /\ response'.result = UNHEALTHY
                         /\ ~response'.probed
                         /\ response'.uptime = NoUptime ]_vars

\* a bound backend whose process lives but does not answer: running, unhealthy
C35_Witness ==
    /\ response.op = "health"
    /\ response.result = UNHEALTHY
    /\ response.status = RUNNING
    /\ response.probed
    /\ adapter_process \in os_alive

\* ------------------------------------------------------------------- C37
\* a model is bound and the adapter has no live subprocess for it
BoundButDead == current_model # NoModel /\ ~adapter_is_running(adapter_process, os_alive)

\* C37: while a model is bound and its subprocess is gone, no step starts a
\* subprocess or makes the adapter's process a live one, the binding changes
\* only when the stop of an unload (called directly or by switch_model)
\* returns, and a load of a catalogued model is rejected as already loaded.
C37_CrashedBindingStays ==
    [][ BoundButDead =>
          /\ os_alive' \subseteq os_alive
          /\ ~adapter_is_running(adapter_process', os_alive')
          /\ current_model' # current_model
                => \E c \in Callers : stop_server(c) /\ cont[c] = "unload"
          /\ \A c \in Callers, m \in Models, g \in GpuIds :
                load_model(c, m, g) => response'.result = ALREADY_LOADED ]_vars

\* a load was rejected while the bound model's subprocess lay dead
C37_Witness ==
    /\ response.op = "load"
    /\ response.result = ALREADY_LOADED
    /\ current_model # NoModel
    /\ adapter_process # NoPid
    /\ adapter_process \notin os_alive
    /\ adapter_status = CRASHED

\* ------------------------------------------------------------- C32 .. C34
\* a generate or chat request is handled in this step
ProxyCall ==
    \E opts \in RequestOptions, flag \in StreamFlags : generate(opts, flag) \/ chat(opts, flag)

\* a model is bound and its subprocess runs
RunningBackend == current_model # NoModel /\ adapter_is_running(adapter_process, os_alive)

\* C32: a generate or chat call made while no backend runs (nothing bound, or
\* a model bound whose process is not running) is answered with the
\* no-backend error (HTTP 503, no model loaded) and posts nothing.
C32_NoRunningBackendIsRefused ==
    [][ (ProxyCall /\ ~RunningBackend)
          => /\ api_result'.code = HTTP_503_SERVICE_UNAVAILABLE
             /\ api_result'.detail = "No model is currently loaded"
             /\ ~api_result'.sent ]_vars

Success == 200 .. 299

\* C33: when the backend answered a proxied request, a status outside 2xx is
\* passed to the client as an error with that status, streamed or not, and a
\* 2xx status is answered without an error.
C33_UpstreamStatusPassedThrough ==
    (api_result.sent /\ api_result.answer # REFUSED)
      => IF api_result.answer \in Success
            THEN api_result.code \in Success /\ api_result.detail = "none"
            ELSE api_result.code = api_result.answer /\ api_result.detail = "llama.cpp error"

\* the names under which the backend takes an option
NativeNames(n) == IF n = "num_predict" THEN {"n_predict", "max_tokens"} ELSE {n}

\* C34: the request posted for a generate or a chat call holds every option
\* of the client's request under the backend's name for it, with the value
\* the client gave, and nothing for an option the client did not give.
C34_OptionsForwarded ==
    api_result.sent
      => /\ \A o \in api_result.options :
               \E f \in api_result.forwarded : f[1] \in NativeNames(o[1]) /\ f[2] = o[2]
         /\ Cardinality(api_result.forwarded) = Cardinality(api_result.options)

\* ------------------------------------------------------------- C31, C36
\* the inputs normalization is defined on
ValidKeys == {x \in PathParams \cup LoadKeys : ~normalize_gpu_id_raises(x)}

IsAscending(ds) == \A i \in 1 .. Len(ds) - 1 : ds[i] < ds[i + 1]

\* C31: normalization gives, for every valid input, the ascending
\* comma-joined form, is idempotent and takes "both" to "0,1"; and a status
\* request naming the devices of a bound entry in any valid form is answered
\* with that entry.
C31_OneEntryPerDeviceSet ==
    [][ /\ \A x \in ValidKeys :
              /\ normalize_gpu_id(x).type = "str"
              /\ IsAscending(normalize_gpu_id(x).devices)
              /\ normalize_gpu_id(normalize_gpu_id(x)) = normalize_gpu_id(x)
        /\ normalize_gpu_id(BothKey) = StrKey(<<0, 1>>)
        /\ \A p \in PathParams \cap ValidKeys :
              (api_get_gpu_status(p) /\ normalize_gpu_id(p) \in DOMAIN gpu_instances)
                => /\ api_result'.code = HTTP_200_OK
                   /\ api_result'.entry = gpu_instances[normalize_gpu_id(p)] ]_vars

\* C36: the status request is answered 404 when nothing is bound to the
\* devices it names, 400 when its gpu_id names no devices, and never 500.
C36_StatusEndpointErrors ==
    [][ \A p \in PathParams :
          api_get_gpu_status(p)
            => /\ normalize_gpu_id_raises(p) => api_result'.code = HTTP_400_BAD_REQUEST
               /\ (~normalize_gpu_id_raises(p)
                     /\ normalize_gpu_id(p) \notin DOMAIN gpu_instances)
                    => api_result'.code = HTTP_404_NOT_FOUND
               /\ api_result'.code # HTTP_500_INTERNAL_SERVER_ERROR ]_vars

\* ------------------------------------------------------------------- C38
\* the subprocess of a load in progress or of the load that bound the model
Owned(p) ==
    \/ \E c \in Callers : pc[c] # IDLE /\ spawned[c] = p
    \/ current_model # NoModel /\ adapter_process = p

\* C38: no subprocess that cleanup_orphans terminates is one the manager
\* started and still owns, whenever the cleanup runs.
C38_CleanupSparesOwnBackends ==
    [][ cleanup_orphans => \A p \in os_alive \ os_alive' : ~Owned(p) ]_vars

====
